---- MODULE Spec2Model ----
(***************************************************************************)
(* ImportRecipientsService (events/lib/import_recipients_service.js):      *)
(* a time-bounded import of a recipient list.  One lineage is the first    *)
(* invocation of the function plus every invocation started by the         *)
(* payloads it hands to lambdaClient.invoke.  Each asynchronous callback   *)
(* (s3 getObject, Recipient.saveAll, lambdaClient.invoke) is one action;   *)
(* the synchronous code that runs inside the callback, up to the next      *)
(* asynchronous call, is part of that action.                              *)
(***************************************************************************)
EXTENDS Integers, Sequences, FiniteSets, TLC

\* ------------------------------------------------------------------ bounds
\* The valid rows of a source number 0..MaxSmall, or maxBatchSize plus 0..MaxExtra.
MaxSmall == 2
MaxExtra == 2
\* A source holds at most MaxCorrupt rows whose email is rejected.
MaxCorrupt == 1
\* A partial response of saveAll leaves at most MaxUnprocessed items of the
\* chunk unwritten (or the whole chunk).
MaxUnprocessed == 2
\* getRemainingTimeInMillis() ranges over executionThreshold +- MaxSlack.
MaxSlack == 1
\* The emails the filter is tried on hold at most MaxEmailLen characters.
MaxEmailLen == 6

\* ------------------------------------------------------- program constants
executionThreshold == 60000

maxBatchSize == 25

VARIABLES
  s3Event,              \* the event of the lineage: the declared format of the key
  source,               \* the rows (emails) the blob decodes to, the same on every fetch
  queue,                \* invocation payloads in flight (the first event, re-dispatches)
  pc,                   \* where the current execution is waiting
  importOffset,         \* this.importOffset
  recipients,           \* this.recipients
  corruptedEmails,      \* this.corruptedEmails
  totalRecipientsCount, \* this.totalRecipientsCount
  recipientsBatch,      \* the chunk handed to the saveAll call in flight
  remaining,            \* context.getRemainingTimeInMillis()
  result,               \* settlement of the promise importAll() returned
  dangling,             \* promises created and dropped (Promise.resolve/reject not returned)
  reports,              \* every importStatus object built in the lineage, in order
  persisted,            \* rows the persistence capability has written
  ref,                  \* the same responses fed to one execution that never runs out of time
  hist                  \* what the current execution has done so far

vars == <<s3Event, source, queue, pc, importOffset, recipients, corruptedEmails,
          totalRecipientsCount, recipientsBatch, remaining, result, dangling,
          reports, persisted, ref, hist>>

\* ------------------------------------------------------------ source rows
ValidEmail == <<"a", "@", "b", ".", "c">>

CorruptEmail == <<"n", "o", "t">>

Repeat(e, n) == [i \in 1..n |-> e]

ValidCounts == (0..MaxSmall) \cup {maxBatchSize + d : d \in 0..MaxExtra}

\* The corrupted rows come first ("head") or last ("tail").
Sources ==
  { IF where = "head"
      THEN Repeat(CorruptEmail, nc) \o Repeat(ValidEmail, nv)
      ELSE Repeat(ValidEmail, nv) \o Repeat(CorruptEmail, nc) :
    nv \in ValidCounts, nc \in 0..MaxCorrupt, where \in {"head", "tail"} }

\* Every email of at most MaxEmailLen characters over a letter, the two
\* separators and the blank.
Alphabet == {"a", "@", ".", " "}

Emails == UNION {[1..n -> Alphabet] : n \in 0..MaxEmailLen}

\* Sources the filter is tried on: one row, or the row between a row that is
\* rejected and a row that is accepted.
FilterSources ==
  {<<e>> : e \in Emails} \cup {<<CorruptEmail, e, ValidEmail>> : e \in Emails}

RemainingTimes == {executionThreshold + d : d \in (0 - MaxSlack)..MaxSlack}

Min(a, b) == IF a < b THEN a ELSE b

\* ------------------------------------------------------------ pure parts
\* /\S+@\S+\.\S+/.test(email): the pattern is not anchored, so a match is any
\* substring  x@y.z  with x, z one non-blank character and y a non-empty run
\* of non-blank characters.
RegexTest(email) ==
  \E p \in 2..Len(email), q \in 1..Len(email) :
    /\ email[p - 1] # " "
    /\ email[p] = "@"
    /\ q > p + 1
    /\ \A i \in (p + 1)..(q - 1) : email[i] # " "
    /\ email[q] = "."
    /\ q < Len(email)
    /\ email[q + 1] # " "

\* parseCSV: one recipient per decoded row, in row order.
parseCSV(rows) == [i \in 1..Len(rows) |-> [row |-> i, email |-> rows[i]]]

\* recipients.filter(filterByEmail): the accepted recipients, in order.
filterAccepted(rs) == SelectSeq(rs, LAMBDA r : RegexTest(r.email))

\* filterByEmail's pushes: the emails of the rejected recipients, in order.
filterRejected(rs) ==
  LET rej == SelectSeq(rs, LAMBDA r : ~RegexTest(r.email))
  IN  [i \in 1..Len(rej) |-> rej[i].email]

\* Mutant: the threshold itself counts as time enough.
timeEnoughInclusive(rem) == rem >= executionThreshold

timeEnough(rem) == rem > executionThreshold

\* Mutant: the slice takes its end index in.
sliceInclusive(rs, from, to) ==
  IF from >= Len(rs) THEN <<>> ELSE SubSeq(rs, from + 1, Min(to + 1, Len(rs)))

\* recipients.slice(importOffset, importOffset + maxBatchSize)
slice(rs, from, to) ==
  IF from >= Len(rs) THEN <<>> ELSE SubSeq(rs, from + 1, Min(to, Len(rs)))

\* --------------------------------------------------- external capabilities
Undefined == [undefined |-> TRUE]

Pending == [state |-> "pending"]

Resolved(v) == [state |-> "resolved", value |-> v]

Rejected(v) == [state |-> "rejected", value |-> v]

PersistenceError == [message |-> "PersistenceError"]

DispatchError == [message |-> "DispatchError"]

SourceUnavailableError == [message |-> "SourceUnavailableError"]

InvokeAck == [StatusCode |-> 202]

\* The lists of unprocessed items a response may carry for a chunk: its first
\* k or its last k items (k up to MaxUnprocessed), or the whole chunk.
UnprocessedChoices(batch) ==
  LET n == Len(batch)
  IN  {SubSeq(batch, 1, k) : k \in 0..Min(MaxUnprocessed, n)}
        \cup {SubSeq(batch, n - k + 1, n) : k \in 0..Min(MaxUnprocessed, n)}
        \cup {batch}

\* What saveAll may resolve with: no list of unprocessed items, or a list.
SaveAllData(batch) ==
  {[ConsumedCapacity |-> 1]}
    \cup {[UnprocessedItems |-> u] : u \in UnprocessedChoices(batch)}

\* data.UnprocessedItems && data.UnprocessedItems instanceof Array
hasUnprocessedArray(data) == "UnprocessedItems" \in DOMAIN data

Rows(rs) == {rs[i].row : i \in 1..Len(rs)}

\* The rows of the chunk the capability wrote: all of them, less the ones it
\* lists as unprocessed.
written(batch, data) ==
  IF hasUnprocessedArray(data)
    THEN Rows(batch) \ Rows(data.UnprocessedItems)
    ELSE Rows(batch)

\* --------------------------------------------------------- the service
fileExt(event) == event.key[Len(event.key)]

\* Mutant: the constructor drops the offset of the payload.
constructorOffsetDropped(payload) == 0

\* constructor({s3Event, importOffset = 0}, ...)
constructorOffset(payload) ==
  IF "importOffset" \in DOMAIN payload THEN payload.importOffset ELSE 0

\* The offset after a chunk when timeEnough() returned true.
advanceContinue(off, data, batch) ==
  IF hasUnprocessedArray(data)
    THEN off + (maxBatchSize - Len(data.UnprocessedItems))
    ELSE off + Min(maxBatchSize, Len(batch))

\* Mutant: a response that lists unprocessed items leaves the offset alone.
advanceDispatchStalls(off, data, batch) ==
  IF hasUnprocessedArray(data)
    THEN off
    ELSE off + Min(maxBatchSize, Len(batch))

\* Mutant: the offset advances by the number of items listed as unprocessed.
advanceDispatchAddsListed(off, data, batch) ==
  IF hasUnprocessedArray(data)
    THEN off + Len(data.UnprocessedItems)
    ELSE off + Min(maxBatchSize, Len(batch))

\* The offset after a chunk when timeEnough() returned false.
advanceDispatch(off, data, batch) ==
  IF hasUnprocessedArray(data)
    THEN off + (maxBatchSize - Len(data.UnprocessedItems))
    ELSE off + Min(maxBatchSize, Len(batch))

\* Mutant: the payload carries the offset the last chunk call started with.
invokePayloadStale(event, off) ==
  [s3Event |-> event, importOffset |-> hist.startOffset]

\* invokeLambda's payload
invokePayload(event, off) == [s3Event |-> event, importOffset |-> off]

\* Mutant: the report counts every decoded row as imported.
successReportCountsTotal(total, corr, off) ==
  [ totalRecipientsCount |-> total,
    importedCount        |-> total,
    corruptedEmailsCount |-> Len(corr),
    corruptedEmails      |-> corr,
    importStatus         |-> "SUCCESS",
    message              |-> "" ]

successReport(total, corr, off) ==
  [ totalRecipientsCount |-> total,
    importedCount        |-> off,
    corruptedEmailsCount |-> Len(corr),
    corruptedEmails      |-> corr,
    importStatus         |-> "SUCCESS",
    message              |-> "" ]

failedReport(total, corr, off, err) ==
  [ totalRecipientsCount |-> total,
    importedCount        |-> off,
    corruptedEmailsCount |-> Len(corr),
    corruptedEmails      |-> corr,
    importStatus         |-> "FAILED",
    message              |-> err.message ]

\* What an execution has done: the calls it issued, the chunk call in flight
\* (its number in this execution, the offset and the remaining time it was
\* started with), the last answer of timeEnough(), the payload handed to
\* lambdaClient.invoke, the reports it built, the error its .catch was
\* entered with, the offset its constructor was given, the last answered
\* chunk call (the offset it found, the rows it wrote, the items it listed as
\* unprocessed).  Three entries are kept from one execution of the lineage to
\* the next: the chunk calls in flight, and the start offsets of the last two
\* chunk calls.
NewHist ==
  [ getObjectCalls |-> 0, saveAllCalls |-> 0, invokeCalls |-> 0,
    firstChunk |-> FALSE, startOffset |-> 0, startedAt |-> 0,
    lastCheck |-> "none", payload |-> Undefined, built |-> 0,
    lastError |-> Undefined, resumedFrom |-> 0,
    lastFrom |-> 0, lastWritten |-> -1, lastListed |-> 0,
    inFlight |-> 0, prevStart |-> -1, lineageStart |-> -1 ]

\* The reference execution: the uninterrupted path of saveRecipients applied
\* to the same responses.
refDone(r, recs) == r.failed \/ r.importOffset >= Len(recs)

refResolve(r, recs, data) ==
  IF refDone(r, recs) THEN r
  ELSE LET b == slice(recs, r.importOffset, r.importOffset + maxBatchSize)
       IN  [ importOffset |-> advanceContinue(r.importOffset, data, b),
             persisted    |-> r.persisted \cup written(b, data),
             failed       |-> FALSE,
             failedAt     |-> r.failedAt ]

refReject(r, recs) ==
  IF refDone(r, recs) THEN r
  ELSE [r EXCEPT !.failed = TRUE, !.failedAt = r.importOffset]

Init ==
  /\ s3Event \in {[key |-> <<"user", "list", ext>>] : ext \in {"csv", "xls"}}
  /\ source \in Sources
  /\ queue = <<[s3Event |-> s3Event]>>
  /\ pc = "idle"
  /\ importOffset = 0
  /\ recipients = <<>>
  /\ corruptedEmails = <<>>
  /\ totalRecipientsCount = 0
  /\ recipientsBatch = <<>>
  /\ remaining = executionThreshold
  /\ result = Pending
  /\ dangling = <<>>
  /\ reports = <<>>
  /\ persisted = {}
  /\ ref = [importOffset |-> 0, persisted |-> {}, failed |-> FALSE, failedAt |-> 0]
  /\ hist = NewHist

Elapsed(rem) == {t \in RemainingTimes : t <= rem}

\* Mutant: the list of corrupted emails outlives the execution.
StartKeepsCorrupted ==
  /\ pc \in {"idle", "settled"}
  /\ queue # <<>>
  /\ queue' = Tail(queue)
  /\ importOffset' = constructorOffset(Head(queue))
  /\ recipients' = <<>>
  /\ corruptedEmails' = corruptedEmails
  /\ totalRecipientsCount' = 0
  /\ recipientsBatch' = <<>>
  /\ remaining' \in RemainingTimes
  /\ result' = Pending
  /\ dangling' = <<>>
  /\ pc' = "getObject"
  /\ hist' = [NewHist EXCEPT !.getObjectCalls = 1,
                             !.resumedFrom = constructorOffset(Head(queue)),
                             !.lastListed = hist.lastListed,
                             !.inFlight = hist.inFlight,
                             !.prevStart = hist.prevStart,
                             !.lineageStart = hist.lineageStart]
  /\ UNCHANGED <<s3Event, source, reports, persisted, ref>>

\* The handler of one invocation: new ImportRecipientsService(payload, ...),
\* importAll(), parseFile() up to the getObject call.
Start ==
  /\ pc \in {"idle", "settled"}
  /\ queue # <<>>
  /\ queue' = Tail(queue)
  /\ importOffset' = constructorOffset(Head(queue))
  /\ recipients' = <<>>
  /\ corruptedEmails' = <<>>
  /\ totalRecipientsCount' = 0
  /\ recipientsBatch' = <<>>
  /\ remaining' \in RemainingTimes
  /\ result' = Pending
  /\ dangling' = <<>>
  /\ pc' = "getObject"
  /\ hist' = [NewHist EXCEPT !.getObjectCalls = 1,
                             !.resumedFrom = constructorOffset(Head(queue)),
                             !.lastListed = hist.lastListed,
                             !.inFlight = hist.inFlight,
                             !.prevStart = hist.prevStart,
                             !.lineageStart = hist.lineageStart]
  /\ UNCHANGED <<s3Event, source, reports, persisted, ref>>

\* Mutant: the loop test lets a call through when the offset has reached the
\* end of the list.
saveRecipientsOffByOne(off, recs, total, corr, rem, h) ==
  IF off <= Len(recs)
    THEN /\ recipientsBatch' = slice(recs, off, off + maxBatchSize)
         /\ pc' = "saveAll"
         /\ hist' = [h EXCEPT !.saveAllCalls = Min(h.saveAllCalls + 1, 2),
                              !.firstChunk = (h.saveAllCalls = 0),
                              !.startOffset = off,
                              !.startedAt = rem,
                              !.inFlight = h.inFlight + 1,
                              !.prevStart = h.lineageStart,
                              !.lineageStart = off]
         /\ UNCHANGED <<reports, dangling, result>>
    ELSE /\ reports' = Append(reports, successReport(total, corr, off))
         /\ dangling' = Append(dangling, Resolved(successReport(total, corr, off)))
         /\ result' = Resolved(Undefined)
         /\ pc' = "settled"
         /\ hist' = [h EXCEPT !.built = h.built + 1]
         /\ UNCHANGED recipientsBatch

\* saveRecipients() called with offset off on the list recs at remaining time
\* rem; h is the history of the execution up to the call.
saveRecipients(off, recs, total, corr, rem, h) ==
  IF off < Len(recs)
    THEN /\ recipientsBatch' = slice(recs, off, off + maxBatchSize)
         /\ pc' = "saveAll"
         /\ hist' = [h EXCEPT !.saveAllCalls = Min(h.saveAllCalls + 1, 2),
                              !.firstChunk = (h.saveAllCalls = 0),
                              !.startOffset = off,
                              !.startedAt = rem,
                              !.inFlight = h.inFlight + 1,
                              !.prevStart = h.lineageStart,
                              !.lineageStart = off]
         /\ UNCHANGED <<reports, dangling, result>>
    ELSE /\ reports' = Append(reports, successReport(total, corr, off))
         /\ dangling' = Append(dangling, Resolved(successReport(total, corr, off)))
         /\ result' = Resolved(Undefined)
         /\ pc' = "settled"
         /\ hist' = [h EXCEPT !.built = h.built + 1]
         /\ UNCHANGED recipientsBatch

\* Mutant: the report counts the chunk of the call in flight as imported.
catchHandlerCountsChunk(err, h) ==
  LET report == failedReport(totalRecipientsCount, corruptedEmails,
                             importOffset + Len(recipientsBatch), err)
  IN  /\ reports' = Append(reports, report)
      /\ dangling' = Append(dangling, Rejected(report))
      /\ result' = Resolved(Undefined)
      /\ pc' = "settled"
      /\ hist' = [h EXCEPT !.built = h.built + 1, !.lastError = err]

\* The .catch of saveRecipients, entered with err.
catchHandler(err, h) ==
  LET report == failedReport(totalRecipientsCount, corruptedEmails, importOffset, err)
  IN  /\ reports' = Append(reports, report)
      /\ dangling' = Append(dangling, Rejected(report))
      /\ result' = Resolved(Undefined)
      /\ pc' = "settled"
      /\ hist' = [h EXCEPT !.built = h.built + 1, !.lastError = err]

\* s3 getObject calls back with an error: parseFile rejects, importAll rejects.
GetObjectError ==
  /\ pc = "getObject"
  /\ remaining' \in Elapsed(remaining)
  /\ result' = Rejected(SourceUnavailableError)
  /\ pc' = "settled"
  /\ UNCHANGED <<s3Event, source, queue, importOffset, recipients, corruptedEmails,
                 totalRecipientsCount, recipientsBatch, dangling, reports,
                 persisted, ref, hist>>

\* Mutant: the extension is not looked at and the blob is decoded as csv.
GetObjectUnsupportedDecoded ==
  /\ pc = "getObject"
  /\ fileExt(s3Event) # "csv"
  /\ remaining' \in Elapsed(remaining)
  /\ LET parsed == parseCSV(source)
     IN  /\ totalRecipientsCount' = Len(parsed)
         /\ recipients' = filterAccepted(parsed)
         /\ corruptedEmails' = corruptedEmails \o filterRejected(parsed)
         /\ saveRecipients(importOffset, recipients', totalRecipientsCount',
                           corruptedEmails', remaining', hist)
  /\ UNCHANGED <<s3Event, source, queue, importOffset, persisted, ref>>

\* s3 getObject calls back with the blob of a key whose extension is not csv.
GetObjectUnsupported ==
  /\ pc = "getObject"
  /\ fileExt(s3Event) # "csv"
  /\ remaining' \in Elapsed(remaining)
  /\ result' = Rejected([message |-> "is not supported"])
  /\ pc' = "settled"
  /\ UNCHANGED <<s3Event, source, queue, importOffset, recipients, corruptedEmails,
                 totalRecipientsCount, recipientsBatch, dangling, reports,
                 persisted, ref, hist>>

\* s3 getObject calls back with a csv blob: parseCSV, then importAll's
\* continuation (count, filter, saveRecipients).
GetObjectCsv ==
  /\ pc = "getObject"
  /\ fileExt(s3Event) = "csv"
  /\ remaining' \in Elapsed(remaining)
  /\ LET parsed == parseCSV(source)
     IN  /\ totalRecipientsCount' = Len(parsed)
         /\ recipients' = filterAccepted(parsed)
         /\ corruptedEmails' = corruptedEmails \o filterRejected(parsed)
         /\ saveRecipients(importOffset, recipients', totalRecipientsCount',
                           corruptedEmails', remaining', hist)
  /\ UNCHANGED <<s3Event, source, queue, importOffset, persisted, ref>>

\* invokeLambda(): the payload is built and handed to lambdaClient.invoke.
invokeLambda(off, h) ==
  /\ pc' = "invoke"
  /\ hist' = [h EXCEPT !.invokeCalls = h.invokeCalls + 1,
                       !.payload = invokePayload(s3Event, off)]
  /\ UNCHANGED <<recipientsBatch, reports, dangling, result>>

\* The history once the chunk call in flight is answered with data and
\* timeEnough() has returned check.
answered(h, data, check) ==
  [h EXCEPT !.lastCheck = check,
            !.lastFrom = importOffset,
            !.lastWritten = Cardinality(written(recipientsBatch, data)),
            !.lastListed = IF hasUnprocessedArray(data)
                             THEN Len(data.UnprocessedItems) ELSE 0,
            !.inFlight = h.inFlight - 1]

\* Recipient.saveAll resolves with data: the .then of saveRecipients.
SaveAllResolved ==
  /\ pc = "saveAll"
  /\ remaining' \in Elapsed(remaining)
  /\ \E data \in SaveAllData(recipientsBatch) :
       /\ persisted' = persisted \cup written(recipientsBatch, data)
       /\ ref' = refResolve(ref, recipients, data)
       /\ IF timeEnough(remaining')
            THEN /\ importOffset' = advanceContinue(importOffset, data, recipientsBatch)
                 /\ saveRecipients(importOffset', recipients, totalRecipientsCount,
                                   corruptedEmails, remaining',
                                   answered(hist, data, "enough"))
            ELSE /\ importOffset' = advanceDispatch(importOffset, data, recipientsBatch)
                 /\ invokeLambda(importOffset', answered(hist, data, "notEnough"))
  /\ UNCHANGED <<s3Event, source, queue, recipients, corruptedEmails,
                 totalRecipientsCount>>

\* Recipient.saveAll rejects: the .catch of saveRecipients.
SaveAllRejected ==
  /\ pc = "saveAll"
  /\ remaining' \in Elapsed(remaining)
  /\ ref' = refReject(ref, recipients)
  /\ catchHandler(PersistenceError, [hist EXCEPT !.inFlight = hist.inFlight - 1])
  /\ UNCHANGED <<s3Event, source, queue, importOffset, recipients, corruptedEmails,
                 totalRecipientsCount, recipientsBatch, persisted>>

\* Mutant: the execution goes on saving after its re-dispatch was accepted.
InvokeResolvedContinues ==
  /\ pc = "invoke"
  /\ remaining' \in Elapsed(remaining)
  /\ queue' = Append(queue, hist.payload)
  /\ saveRecipients(importOffset, recipients, totalRecipientsCount,
                    corruptedEmails, remaining', hist)
  /\ UNCHANGED <<s3Event, source, importOffset, recipients, corruptedEmails,
                 totalRecipientsCount, persisted, ref>>

\* lambdaClient.invoke calls back with data: the request was accepted, the
\* payload starts a new execution; the promise chain resolves with data.
InvokeResolved ==
  /\ pc = "invoke"
  /\ remaining' \in Elapsed(remaining)
  /\ queue' = Append(queue, hist.payload)
  /\ result' = Resolved(InvokeAck)
  /\ pc' = "settled"
  /\ UNCHANGED <<s3Event, source, importOffset, recipients, corruptedEmails,
                 totalRecipientsCount, recipientsBatch, dangling, reports,
                 persisted, ref, hist>>

\* lambdaClient.invoke calls back with err: invokeLambda rejects inside the
\* .then of saveRecipients, so the .catch chained after it runs.
InvokeRejected ==
  /\ pc = "invoke"
  /\ remaining' \in Elapsed(remaining)
  /\ catchHandler(DispatchError, hist)
  /\ UNCHANGED <<s3Event, source, queue, importOffset, recipients, corruptedEmails,
                 totalRecipientsCount, recipientsBatch, persisted, ref>>

Next ==
  \/ Start
  \/ GetObjectError
  \/ GetObjectUnsupported
  \/ GetObjectCsv
  \/ SaveAllResolved
  \/ SaveAllRejected
  \/ InvokeResolved
  \/ InvokeRejected

Spec == Init /\ [][Next]_vars

\* The lineage under the assumptions of the liveness claim: a csv key, every
\* fetch answered with the blob, every saveAll call rejected or answered with
\* at least one row written, every re-dispatch accepted; every pending
\* callback is eventually called.
InitLive == Init /\ fileExt(s3Event) = "csv"

SaveAllProgress == SaveAllResolved /\ hist'.lastWritten > 0

NextLive ==
  \/ Start
  \/ GetObjectCsv
  \/ SaveAllProgress
  \/ SaveAllRejected
  \/ InvokeResolved

SpecLive == InitLive /\ [][NextLive]_vars /\ WF_vars(NextLive)

\* The fetch and the filter alone, on every email of FilterSources.
InitFilter ==
  /\ s3Event = [key |-> <<"user", "list", "csv">>]
  /\ source \in FilterSources
  /\ queue = <<[s3Event |-> s3Event]>>
  /\ pc = "idle"
  /\ importOffset = 0
  /\ recipients = <<>>
  /\ corruptedEmails = <<>>
  /\ totalRecipientsCount = 0
  /\ recipientsBatch = <<>>
  /\ remaining = executionThreshold
  /\ result = Pending
  /\ dangling = <<>>
  /\ reports = <<>>
  /\ persisted = {}
  /\ ref = [importOffset |-> 0, persisted |-> {}, failed |-> FALSE, failedAt |-> 0]
  /\ hist = NewHist

NextFilter ==
  \/ Start
  \/ GetObjectCsv

SpecFilter == InitFilter /\ [][NextFilter]_vars

\* ------------------------------------------------------------- claims
validEntities == filterAccepted(parseCSV(source))

LineageEnded == pc = "settled" /\ queue = <<>>

\* C1: over a lineage at most one report is built, a lineage that has ended
\* with importAll resolved has built exactly one, and an execution that has
\* called invokeLambda has built none.
C1_TerminalUniqueness ==
  /\ Len(reports) <= 1
  /\ (LineageEnded /\ result.state = "resolved") => Len(reports) = 1
  /\ ~(hist.invokeCalls > 0 /\ hist.built > 0)

\* C2: importOffset never exceeds the number of valid entities of the source.
C2_OffsetWithinValid == importOffset <= Len(validEntities)

\* C3: the number of distinct rows written is at least importOffset.
C3_OffsetLowerBound == Cardinality(persisted) >= importOffset

\* C4: whatever the deadline does, the lineage stays in step with one
\* execution that never runs out of time and gets the same responses: same
\* offset, same rows written, the payload carries the offset reached after
\* the last chunk, and a report that ends the persistence (SUCCESS, or FAILED
\* by a persistence error) carries the importedCount the uninterrupted
\* execution reports.
C4_CheckpointEquivalence ==
  /\ importOffset = ref.importOffset
  /\ persisted = ref.persisted
  /\ pc = "invoke" => hist.payload.importOffset = importOffset
  /\ \A i \in 1..Len(reports) :
       /\ reports[i].importStatus = "SUCCESS" =>
            /\ ~ref.failed
            /\ refDone(ref, validEntities)
            /\ reports[i].importedCount = ref.importOffset
       /\ (reports[i].importStatus = "FAILED"
             /\ reports[i].message = PersistenceError.message) =>
            /\ ref.failed
            /\ reports[i].importedCount = ref.failedAt

\* A resumed execution that issued a chunk call has built the SUCCESS report
\* after a partial response somewhere in the lineage.
C4_Witness ==
  /\ hist.resumedFrom > 0
  /\ hist.saveAllCalls > 0
  /\ Len(reports) = 1
  /\ reports[1].importStatus = "SUCCESS"
  /\ Cardinality(persisted) < Len(validEntities)

\* C5: a FAILED report built for a persistence error carries the offset the
\* failing call was started with, and once it is built the lineage is over:
\* nothing is in flight and no step is left to take.
C5_PersistenceFailureIsTerminal ==
  \A i \in 1..Len(reports) :
    (reports[i].importStatus = "FAILED"
       /\ reports[i].message = PersistenceError.message) =>
      /\ reports[i].importedCount = hist.startOffset
      /\ hist.invokeCalls = 0
      /\ LineageEnded
      /\ ~ENABLED Next

\* The second chunk of a source failed: the report counts the first chunk.
C5_Witness ==
  /\ Len(reports) = 1
  /\ reports[1].importStatus = "FAILED"
  /\ reports[1].message = PersistenceError.message
  /\ reports[1].importedCount = maxBatchSize
  /\ persisted # {}

\* C6: when lambdaClient.invoke called back with an error, importAll is
\* rejected and the execution has built no report.
C6_DispatchFailurePropagates ==
  hist.lastError = DispatchError =>
    /\ result.state = "rejected"
    /\ hist.built = 0

\* C7 as claimed: every chunk call in flight was started with more than
\* executionThreshold ms remaining.
C7_NoChunkBelowThreshold ==
  pc = "saveAll" => hist.startedAt > executionThreshold

\* C7 as amended: every chunk call but the first of its execution was
\* started with more than executionThreshold ms remaining, right after
\* timeEnough() returned true.
C7_LaterChunksAboveThreshold ==
  (pc = "saveAll" /\ ~hist.firstChunk) =>
    /\ hist.startedAt > executionThreshold
    /\ hist.lastCheck = "enough"

\* A second chunk call of an execution is in flight, started with the least
\* remaining time that is enough.
C7_Witness ==
  /\ pc = "saveAll"
  /\ ~hist.firstChunk
  /\ hist.startedAt = executionThreshold + 1
  /\ hist.startOffset > 0

\* C8: the promise importAll returned settles with the report: resolved with
\* the SUCCESS report, rejected with the FAILED report of a persistence error.
C8_ReportHandedToCaller ==
  \A i \in 1..Len(reports) :
    /\ reports[i].importStatus = "SUCCESS" => result = Resolved(reports[i])
    /\ (reports[i].importStatus = "FAILED"
          /\ reports[i].message = PersistenceError.message) =>
         result = Rejected(reports[i])

\* The chunk calls of the current execution have all been answered and the
\* offset has reached the number of valid entities.
LastChunkCompleted ==
  /\ hist.saveAllCalls > 0
  /\ pc # "saveAll"
  /\ importOffset >= Len(recipients)

\* C9 as claimed: once the last chunk has completed, the execution has built
\* the SUCCESS report and has not called invokeLambda.
C9_SuccessWhateverTheTime ==
  LastChunkCompleted =>
    /\ hist.invokeCalls = 0
    /\ hist.built = 1
    /\ reports[Len(reports)].importStatus = "SUCCESS"

\* C9 as amended: once the last chunk has completed, the execution has built
\* the SUCCESS report without calling invokeLambda when timeEnough() returned
\* true after that chunk, and has called invokeLambda without building a
\* SUCCESS report when it returned false.
C9_SuccessWhenTimeEnough ==
  LastChunkCompleted =>
    /\ hist.lastCheck = "enough" =>
         /\ hist.invokeCalls = 0
         /\ hist.built = 1
         /\ LineageEnded
         /\ reports[Len(reports)] =
              successReport(totalRecipientsCount, corruptedEmails, importOffset)
    /\ hist.lastCheck = "notEnough" =>
         /\ hist.invokeCalls = 1
         /\ \A i \in 1..Len(reports) : reports[i].importStatus # "SUCCESS"

\* The last chunk of a resumed execution completed with time enough.
C9_Witness ==
  /\ LastChunkCompleted
  /\ hist.lastCheck = "enough"
  /\ hist.resumedFrom >= maxBatchSize
  /\ Len(reports) = 1

\* C10 as claimed: for a key whose extension is not csv no getObject call is
\* ever issued, and no report, persistence call or re-dispatch follows.
C10_RejectedBeforeFetch ==
  fileExt(s3Event) # "csv" =>
    /\ hist.getObjectCalls = 0
    /\ reports = <<>>
    /\ hist.saveAllCalls = 0
    /\ hist.invokeCalls = 0

\* C10 as amended: for a key whose extension is not csv the execution is
\* rejected when getObject calls back, before the blob is decoded, and no
\* report, persistence call or re-dispatch follows.
C10_RejectedBeforeDecode ==
  fileExt(s3Event) # "csv" =>
    /\ pc \in {"idle", "getObject", "settled"}
    /\ pc = "settled" => (result.state = "rejected" /\ LineageEnded /\ ~ENABLED Next)
    /\ recipients = <<>>
    /\ totalRecipientsCount = 0
    /\ reports = <<>>
    /\ persisted = {}
    /\ hist.saveAllCalls = 0
    /\ hist.invokeCalls = 0

\* The fetch of a non-csv key was issued and answered with the blob.
C10_Witness ==
  /\ fileExt(s3Event) # "csv"
  /\ hist.getObjectCalls = 1
  /\ pc = "settled"
  /\ result = Rejected([message |-> "is not supported"])
  /\ Len(source) > 0

\* C11: the chunk handed to every saveAll call holds at least 1 and at most
\* maxBatchSize recipients.
C11_ChunkBound ==
  pc = "saveAll" =>
    /\ Len(recipientsBatch) >= 1
    /\ Len(recipientsBatch) <= maxBatchSize

\* The short rest of a list longer than a chunk is in flight in a resumed
\* execution.
C11_Witness ==
  /\ pc = "saveAll"
  /\ hist.resumedFrom >= maxBatchSize
  /\ Len(recipientsBatch) < maxBatchSize
  /\ Len(recipients) > maxBatchSize

\* C12: no step decreases importOffset, and the execution a re-dispatch
\* starts begins with the offset of the payload the previous execution built.
C12_OffsetMonotone ==
  [][ /\ importOffset' >= importOffset
      /\ (pc' = "getObject" /\ hist.invokeCalls > 0) =>
           importOffset' = hist.payload.importOffset ]_vars

\* A re-dispatched execution has started with a positive offset.
C12_Witness ==
  /\ pc = "getObject"
  /\ hist.resumedFrom > 0
  /\ importOffset = hist.resumedFrom

\* C13 as claimed: at most one chunk call is in flight, and every chunk call
\* of the lineage starts at a greater offset than the call before it.
C13_StrictlyIncreasingStarts ==
  /\ hist.inFlight <= 1
  /\ (pc = "saveAll" /\ hist.prevStart >= 0) => hist.lineageStart > hist.prevStart

\* C13 as amended: at most one chunk call is in flight, and that only while
\* the execution waits for its answer; every chunk call of the lineage starts
\* at an offset no smaller than the call before it, and at the same offset
\* exactly when the answer to the call before listed maxBatchSize
\* unprocessed items.
C13_NonDecreasingStarts ==
  /\ hist.inFlight = IF pc = "saveAll" THEN 1 ELSE 0
  /\ (pc = "saveAll" /\ hist.prevStart >= 0) =>
       /\ hist.lineageStart >= hist.prevStart
       /\ hist.lineageStart = hist.prevStart <=> hist.lastListed = maxBatchSize

\* The first chunk call of a resumed execution is in flight at the offset of
\* the call before it, whose answer listed the whole chunk as unprocessed.
C13_Witness ==
  /\ pc = "saveAll"
  /\ hist.firstChunk
  /\ hist.getObjectCalls = 1
  /\ hist.prevStart >= 0
  /\ hist.lineageStart = hist.prevStart
  /\ hist.lastListed = maxBatchSize

\* C14: a csv source with no valid row, started at offset 0, issues no chunk
\* call and no re-dispatch, and once its rows are decoded the execution has
\* built the SUCCESS report with importedCount 0.
C14_EmptyImportSucceeds ==
  (fileExt(s3Event) = "csv" /\ Len(validEntities) = 0) =>
    /\ hist.saveAllCalls = 0
    /\ hist.invokeCalls = 0
    /\ persisted = {}
    /\ pc \in {"idle", "getObject", "settled"}
    /\ (pc = "settled" /\ result.state # "rejected") =>
         /\ LineageEnded
         /\ Len(reports) = 1
         /\ reports[1].importStatus = "SUCCESS"
         /\ reports[1].importedCount = 0

\* Every row of the source was rejected by the filter and the report is built.
C14_Witness ==
  /\ Len(source) > 0
  /\ Len(validEntities) = 0
  /\ pc = "settled"
  /\ Len(reports) = 1
  /\ reports[1].corruptedEmailsCount = Len(source)

\* The shape the claim gives: no blank anywhere, and the whole email is
\* something, an "@", something, a ".", something.
WholeShape(email) ==
  /\ \A i \in 1..Len(email) : email[i] # " "
  /\ \E p \in 1..Len(email), q \in 1..Len(email) :
       /\ 1 < p
       /\ email[p] = "@"
       /\ p + 1 < q
       /\ email[q] = "."
       /\ q < Len(email)

Filtered == pc \in {"saveAll", "settled"} /\ hist.getObjectCalls = 1

\* C15: once the rows are filtered, this.recipients holds exactly the rows
\* whose whole email has the shape, in row order, and corruptedEmails holds
\* the emails of the other rows, in row order.
C15_FilterAcceptsWholeShape ==
  Filtered =>
    /\ recipients = SelectSeq(parseCSV(source), LAMBDA r : WholeShape(r.email))
    /\ LET rest == SelectSeq(parseCSV(source), LAMBDA r : ~WholeShape(r.email))
       IN  corruptedEmails = [i \in 1..Len(rest) |-> rest[i].email]

\* C16: in every report of the lineage totalRecipientsCount is the number of
\* corrupted emails plus the number of valid entities of the source, and the
\* corrupted emails are those of the source, each once.
C16_ExhaustivePartition ==
  \A i \in 1..Len(reports) :
    /\ reports[i].totalRecipientsCount =
         reports[i].corruptedEmailsCount + Len(validEntities)
    /\ reports[i].corruptedEmailsCount = Len(reports[i].corruptedEmails)
    /\ reports[i].corruptedEmails = filterRejected(parseCSV(source))

\* A resumed execution has built the report of a source with a corrupted row.
C16_Witness ==
  /\ hist.resumedFrom > 0
  /\ hist.built = 1
  /\ Len(reports) = 1
  /\ reports[1].corruptedEmailsCount >= 1

\* C17: after an answered chunk call the offset is the offset the call found
\* plus the number of rows of the chunk that were written.
C17_AdvanceByWritten ==
  hist.lastWritten >= 0 => importOffset = hist.lastFrom + hist.lastWritten

\* C18: under the assumptions of SpecLive the lineage ends with its one
\* report built.
C18_EventuallyTerminal == <>(LineageEnded /\ Len(reports) = 1)

\* The lineage has ended with SUCCESS in a resumed execution whose last
\* answer listed unprocessed items.
C18_Witness ==
  /\ LineageEnded
  /\ Len(reports) = 1
  /\ reports[1].importStatus = "SUCCESS"
  /\ hist.resumedFrom > 0
  /\ hist.lastWritten > 0
  /\ hist.lastListed > 0

\* C19: an execution calls invokeLambda at most once, only after an answered
\* chunk call for which timeEnough() returned false, and has no chunk call in
\* flight from then on; a payload is in flight only while no execution has a
\* chunk call in flight.
C19_OneActiveExecution ==
  /\ hist.invokeCalls <= 1
  /\ Len(queue) <= 1
  /\ hist.invokeCalls = 1 =>
       /\ hist.lastCheck = "notEnough"
       /\ hist.lastWritten >= 0
       /\ pc \in {"invoke", "settled"}
       /\ hist.inFlight = 0
  /\ queue # <<>> =>
       /\ pc \in {"idle", "settled"}
       /\ hist.inFlight = 0

\* The re-dispatch of an execution was accepted: it has settled and its
\* payload waits to start the next execution.
C19_Witness ==
  /\ pc = "settled"
  /\ Len(queue) = 1
  /\ hist.invokeCalls = 1
  /\ queue[1] = invokePayload(s3Event, importOffset)

\* C20: when a SUCCESS report is built every valid row has been written and
\* importedCount is the number of valid entities.
C20_CompleteAtSuccess ==
  \A i \in 1..Len(reports) :
    reports[i].importStatus = "SUCCESS" =>
      /\ Rows(validEntities) \subseteq persisted
      /\ reports[i].importedCount = Len(validEntities)

====
